---- MODULE Spec2Model ----
(***************************************************************************)
(* Attendance derivation and monthly reporting of realtime.py.             *)
(*                                                                         *)
(* The database tables (employees, timesheet, attendance_log), the         *)
(* last-update file and the wall clock are the shared state.  Every        *)
(* Streamlit session runs the form handlers of employee_view; the          *)
(* handlers call add_timesheet_entry and log_attendance.                   *)
(*                                                                         *)
(*   Spec        every handler runs to completion before the next starts   *)
(*   SpecConc    the sessions interleave at the granularity of the         *)
(*               database and file statements of add_timesheet_entry       *)
(*   SpecReport  generate_monthly_report over ledgers of a whole month     *)
(***************************************************************************)
EXTENDS Integers, Sequences, FiniteSets, Bags, TLC

\* ------------------------------------------------------------------ bounds
MaxClock == 1
MaxTimesheet == 2

\* ---------------------------------------------------------- input domains
EmployeeIds == {"E1", "E2"}
EmployeeNames == {"Asha"}
Sessions == {"s1", "s2"}
\* what is typed into task_form: a complete form, and the forms that lack
\* one field each; hours_worked in half hours, the step of the number_input
TaskFormInputs ==
    {[project_name |-> "Alpha", task_description |-> "Fix bug", hours_worked |-> 1],
     [project_name |-> "", task_description |-> "Fix bug", hours_worked |-> 1],
     [project_name |-> "Alpha", task_description |-> "", hours_worked |-> 1],
     [project_name |-> "Alpha", task_description |-> "Fix bug", hours_worked |-> 0],
     [project_name |-> "Alpha", task_description |-> "Fix bug", hours_worked |-> -1]}
ReasonInputs == {"", "Sick", "Trip"}
\* the selectbox also offering the label of the table comment
LeaveTypes_WithAbsent == {"Leave", "Half-day", "Absent"}

\* st.selectbox("Type of Leave", ["Leave", "Half-day"])
LeaveTypes == {"Leave", "Half-day"}
\* the date picked in st.date_input: Friday 1 March 2024
DateInputs == {[year |-> 2024, month |-> 3, day |-> 1]}

\* ------------------------------------------------- calendar (datetime.date)
IsLeap(y) == (y % 4 = 0) /\ ((y % 100 # 0) \/ (y % 400 = 0))

DaysInMonth(y, m) ==
    IF m = 2 THEN (IF IsLeap(y) THEN 29 ELSE 28)
    ELSE IF m \in {4, 6, 9, 11} THEN 30 ELSE 31

RECURSIVE DaysBeforeMonth(_, _)
DaysBeforeMonth(y, m) ==
    IF m <= 1 THEN 0 ELSE DaysBeforeMonth(y, m - 1) + DaysInMonth(y, m - 1)

DaysBeforeYear(y) ==
    (y - 1) * 365 + ((y - 1) \div 4) - ((y - 1) \div 100) + ((y - 1) \div 400)

ToOrdinal(d) == DaysBeforeYear(d.year) + DaysBeforeMonth(d.year, d.month) + d.day

\* date.weekday(): Monday is 0, Sunday is 6
Weekday(d) == (ToOrdinal(d) + 6) % 7

MkDate(y, m, i) == [year |-> y, month |-> m, day |-> i]

NextDay(d) ==
    IF d.day < DaysInMonth(d.year, d.month) THEN MkDate(d.year, d.month, d.day + 1)
    ELSE IF d.month < 12 THEN MkDate(d.year, d.month + 1, 1)
    ELSE MkDate(d.year + 1, 1, 1)

RECURSIVE AddDays(_, _)
AddDays(d, n) == IF n = 0 THEN d ELSE AddDays(NextDay(d), n - 1)

\* ------------------------------------------- dates as text ('YYYY-MM-DD')
DigitChars == <<"0", "1", "2", "3", "4", "5", "6", "7", "8", "9">>

Digit(n) == DigitChars[n + 1]

DigitValue(c) == (CHOOSE i \in 1..10 : DigitChars[i] = c) - 1

\* str(n) for n >= 0
RECURSIVE IntToStr(_)
IntToStr(n) == IF n < 10 THEN <<Digit(n)>> ELSE Append(IntToStr(n \div 10), Digit(n % 10))

\* zero padding to a least width, f'{n:02d}'
RECURSIVE ZeroPad(_, _)
ZeroPad(s, w) == IF Len(s) >= w THEN s ELSE ZeroPad(<<"0">> \o s, w)

RECURSIVE StrToInt(_)
StrToInt(s) ==
    IF s = <<>> THEN 0
    ELSE 10 * StrToInt(SubSeq(s, 1, Len(s) - 1)) + DigitValue(s[Len(s)])

\* str(date) and the sqlite3 date adapter: date.isoformat()
DateIso(d) ==
    ZeroPad(IntToStr(d.year), 4) \o <<"-">> \o ZeroPad(IntToStr(d.month), 2)
        \o <<"-">> \o ZeroPad(IntToStr(d.day), 2)

\* pd.to_datetime(text).date() of an ISO date
ParseIso(t) ==
    MkDate(StrToInt(SubSeq(t, 1, 4)), StrToInt(SubSeq(t, 6, 7)), StrToInt(SubSeq(t, 9, 10)))

\* SQLite strftime('%Y', text) and strftime('%m', text)
SqlStrftimeY(t) == ZeroPad(IntToStr(ParseIso(t).year), 4)
SqlStrftimeM(t) == ZeroPad(IntToStr(ParseIso(t).month), 2)

\* ------------------------------------------------------------------- clock
\* The wall clock counts half days from noon of Friday 1 March 2024; tick 0
\* of the POSIX time scale lies one tick before that.
TicksPerDay == 2
EpochDate == MkDate(2024, 3, 1)

\* now.timestamp(): positive, strictly increasing with the clock
Timestamp(c) == c + 1
\* datetime.now(IST).date()
Today(c) == AddDays(EpochDate, Timestamp(c) \div TicksPerDay)
\* now.strftime("%H:%M:%S"), at the granularity of the clock
TimeOfDay(c) == Timestamp(c) % TicksPerDay

\* ------------------------------------------------------------------- state
VARIABLES
    employees,       \* table employees: set of rows, employee_id UNIQUE
    timesheet,       \* table timesheet: rows in AUTOINCREMENT order
    attendance_log,  \* table attendance_log: bag of rows
    last_update,     \* the file LAST_UPDATE_FILE
    clock,           \* the wall clock, in ticks
    pc,              \* per session: the statement of add_timesheet_entry it is at
    frame,           \* per session: arguments and locals of add_timesheet_entry
    st_message,      \* the st.success / st.error of the last form submitted
    report,          \* what generate_monthly_report returned last
    dashboard        \* the admin's dashboard: st.session_state and the two placeholders

vars == <<employees, timesheet, attendance_log, last_update, clock, pc, frame, st_message,
          report, dashboard>>

db == <<employees, timesheet, attendance_log, last_update>>

IdleFrame ==
    [employee_id |-> "", project_name |-> "", task_description |-> "",
     hours_worked |-> 0, entry_date |-> EpochDate, now |-> 0, current_log |-> "None"]

\* nothing returned yet
NoReport == [generated |-> FALSE, year |-> 0, month |-> 0, summary |-> {}, detailed |-> {}]

\* the dashboard page not run yet: 'last_update_check' not in st.session_state
NoDashboard ==
    [open |-> FALSE, last_update_check |-> 0, date |-> EpochDate,
     attendance |-> {}, entries |-> <<>>]

\* ---------------------------------------------------------------- database
\* SELECT employee_id, name FROM employees
get_all_employees == employees

EmployeeIdsOf(emps) == {r.employee_id : r \in emps}

\* the row of INSERT INTO timesheet (...)
TimesheetRow(e, project, task, hours, d, now) ==
    [employee_id |-> e, project_name |-> project, task_description |-> task,
     hours_worked |-> hours, submission_date |-> DateIso(d),
     submission_time |-> TimeOfDay(now)]

\* the entry written over the earlier entries of its employee and date
InsertTimesheet_Replace(ts, e, project, task, hours, d, now) ==
    LET Other(r) == ~(r.employee_id = e /\ r.submission_date = DateIso(d))
    IN  Append(SelectSeq(ts, Other), TimesheetRow(e, project, task, hours, d, now))

\* INSERT INTO timesheet (...): the table has no key but the autoincrement id
InsertTimesheet(ts, e, project, task, hours, d, now) ==
    Append(ts, TimesheetRow(e, project, task, hours, d, now))

\* the rows of a bag that are in the set rows, with their multiplicities
BagFilter(b, rows) == [x \in (DOMAIN b) \cap rows |-> b[x]]

\* rows of attendance_log with the key (employee_id, attendance_date)
RowsOf(log, e, dtext) ==
    {r \in BagToSet(log) : r.employee_id = e /\ r.attendance_date = dtext}

\* number of rows of attendance_log with the key, duplicates counted
CountOf(log, e, dtext) ==
    BagCardinality(BagFilter(log, RowsOf(log, e, dtext)))

\* a plain INSERT into a table without the UNIQUE constraint
log_attendance_PlainInsert(log, e, d, status, reason) ==
    log (+) SetToBag({[employee_id |-> e, attendance_date |-> DateIso(d),
                       status |-> status, reason |-> reason]})

\* INSERT OR IGNORE: the row in conflict is kept
log_attendance_InsertOrIgnore(log, e, d, status, reason) ==
    IF RowsOf(log, e, DateIso(d)) # {} THEN log
    ELSE log (+) SetToBag({[employee_id |-> e, attendance_date |-> DateIso(d),
                            status |-> status, reason |-> reason]})

\* INSERT OR REPLACE on UNIQUE(employee_id, attendance_date): the rows in
\* conflict are deleted, then the new row is inserted.
log_attendance(log, e, d, status, reason) ==
    BagFilter(log, BagToSet(log) \ RowsOf(log, e, DateIso(d)))
        (+) SetToBag({[employee_id |-> e, attendance_date |-> DateIso(d),
                       status |-> status, reason |-> reason]})

\* the SELECT comparing attendance_date with a value no stored date equals
SelectStatus_NoMatch(log, e, dtext) == "None"

\* SELECT status FROM attendance_log WHERE employee_id = ? AND
\* attendance_date = ?, then fetchone()
SelectStatus(log, e, dtext) ==
    IF RowsOf(log, e, dtext) = {} THEN "None"
    ELSE (CHOOSE r \in RowsOf(log, e, dtext) : TRUE).status

\* the test of current_log dropped
NeedsDefault_Always(current_log) == TRUE

\* the test of current_log inverted
NeedsDefault_Inverted(current_log) == current_log # "None"

\* if current_log is None
NeedsDefault(current_log) == current_log = "None"

\* with open(LAST_UPDATE_FILE, "w"): the file is created or truncated
OpenForWrite(f) == [exists |-> TRUE, text |-> <<>>]

\* f.write(str(now.timestamp())), flushed when the with block closes
WriteTimestamp(f, now) == [exists |-> TRUE, text |-> IntToStr(Timestamp(now))]

get_last_update_time(f) ==
    IF f.exists THEN (IF f.text = <<>> THEN 0 ELSE StrToInt(f.text)) ELSE 0

\* ----------------------------------------------------------- today's views
\* pd.merge(employees, todays_log, on='employee_id', how='left'), then
\* fillna('Absent') on status and fillna('') on reason; todays_log is
\* SELECT ... FROM attendance_log WHERE attendance_date = str(today)
get_todays_attendance_status(emps, log, now) ==
    UNION {LET hits == RowsOf(log, r.employee_id, DateIso(Today(now)))
           IN  IF hits = {}
               THEN {[employee_id |-> r.employee_id, name |-> r.name,
                      status |-> "Absent", reason |-> ""]}
               ELSE {[employee_id |-> r.employee_id, name |-> r.name,
                      status |-> h.status, reason |-> h.reason] : h \in hits}
              : r \in emps}

\* ORDER BY submission_time DESC, rows of one time in the order of their ids
RECURSIVE OrderByTimeDesc(_, _)
OrderByTimeDesc(ts, t) ==
    IF t < 0 THEN <<>>
    ELSE LET AtTime(r) == r.submission_time = t
         IN  SelectSeq(ts, AtTime) \o OrderByTimeDesc(ts, t - 1)

\* SELECT e.name, t.project_name, ... FROM timesheet t JOIN employees e ON
\* t.employee_id = e.employee_id WHERE t.submission_date = str(today)
get_timesheet_entries_today(ts, emps, now) ==
    LET Joined(r) == /\ r.submission_date = DateIso(Today(now))
                     /\ r.employee_id \in EmployeeIdsOf(emps)
        hits == OrderByTimeDesc(SelectSeq(ts, Joined), TicksPerDay - 1)
    IN  [i \in 1..Len(hits) |->
            [name |-> (CHOOSE e \in emps : e.employee_id = hits[i].employee_id).name,
             project_name |-> hits[i].project_name,
             task_description |-> hits[i].task_description,
             hours_worked |-> hits[i].hours_worked,
             submission_time |-> hits[i].submission_time]]

\* ---------------------------------------------------------- monthly report
\* SELECT ... FROM attendance_log WHERE strftime('%Y', attendance_date) = ?
\* AND strftime('%m', attendance_date) = ?, with str(year) and f'{month:02d}'
MonthRows(log, year, month) ==
    BagFilter(log, {r \in BagToSet(log) :
                       /\ SqlStrftimeY(r.attendance_date) = IntToStr(year)
                       /\ SqlStrftimeM(r.attendance_date) = ZeroPad(IntToStr(month), 2)})

\* df.groupby('employee_id')['status'].value_counts().unstack(fill_value=0):
\* a row per employee_id of df, a column per status of df
GroupedEmployees(df) == {r.employee_id : r \in BagToSet(df)}
StatusColumns(df) == {r.status : r \in BagToSet(df)}
ValueCount(df, e, s) ==
    BagCardinality(BagFilter(df, {r \in BagToSet(df) : r.employee_id = e /\ r.status = s}))

\* pd.merge(employees, summary, on='employee_id', how='left').fillna(0)
MergedCounts(df, e) ==
    [s \in StatusColumns(df) |->
        IF e \in GroupedEmployees(df) THEN ValueCount(df, e, s) ELSE 0]

\* calendar.monthrange(year, month)[1]
NumDays(year, month) == DaysInMonth(year, month)

\* sum(1 for i in range(1, num_days + 1) if date(year, month, i).weekday() < 5)
WorkingDays(year, month) ==
    Cardinality({i \in 1..NumDays(year, month) : Weekday(MkDate(year, month, i)) < 5})

\* summary.get(col, 0)
ColumnOrZero(counts, col) == IF col \in DOMAIN counts THEN counts[col] ELSE 0

\* sum(summary.get(col, 0) for col in ['Present', 'Half-day', 'Leave'])
TotalLogged(counts) ==
    ColumnOrZero(counts, "Present") + ColumnOrZero(counts, "Half-day")
        + ColumnOrZero(counts, "Leave")

\* the clip left out
ClipLower_None(x, lo) == x

\* Series.clip(lower=lo)
ClipLower(x, lo) == IF x < lo THEN lo ELSE x

\* the summary: a row per employee of the directory
Summary(emps, df, year, month) ==
    {[employee_id |-> r.employee_id, name |-> r.name,
      counts |-> MergedCounts(df, r.employee_id),
      Absent |-> ClipLower(WorkingDays(year, month)
                               - TotalLogged(MergedCounts(df, r.employee_id)), 0)]
        : r \in emps}

\* the weekday test left out
DefaultCell_AlwaysAbsent(dt) == "Absent"

\* detailed_report[dt] = 'Weekend' if dt.weekday() >= 5 else 'Absent'
DefaultCell(dt) == IF Weekday(dt) >= 5 THEN "Weekend" ELSE "Absent"

\* for _, row in df.iterrows(): detailed_report.loc[employee_id, date] = status
Cell(df, e, dt) ==
    LET hits == {r \in BagToSet(df) : r.employee_id = e /\ ParseIso(r.attendance_date) = dt}
    IN  IF hits = {} THEN DefaultCell(dt) ELSE (CHOOSE r \in hits : TRUE).status

\* the day-by-day matrix: a row per employee of the directory
Detailed(emps, df, year, month) ==
    {[employee_id |-> r.employee_id, name |-> r.name,
      cells |-> [i \in 1..NumDays(year, month) |->
                    Cell(df, r.employee_id, MkDate(year, month, i))]]
        : r \in emps}

generate_monthly_report(emps, log, year, month) ==
    IF emps = {}
    THEN [generated |-> TRUE, year |-> year, month |-> month,
          summary |-> {}, detailed |-> {}]
    ELSE [generated |-> TRUE, year |-> year, month |-> month,
          summary |-> Summary(emps, MonthRows(log, year, month), year, month),
          detailed |-> Detailed(emps, MonthRows(log, year, month), year, month)]

\* ------------------------------------------------------- form validation
\* the test of hours_worked dropped
TaskFormValid_NoHours(project, task, hours) == project # "" /\ task # ""

\* if project_name and task_description and hours_worked > 0
TaskFormValid(project, task, hours) == project # "" /\ task # "" /\ hours > 0

\* the test of reason dropped
LeaveFormValid_Always(reason) == TRUE

\* if reason
LeaveFormValid(reason) == reason # ""

\* ------------------------------------------------------------------- Init
Init ==
    /\ employees = {}
    /\ timesheet = <<>>
    /\ attendance_log = EmptyBag
    /\ last_update = [exists |-> FALSE, text |-> <<>>]
    /\ clock = 0
    /\ pc = [p \in Sessions |-> "idle"]
    /\ frame = [p \in Sessions |-> IdleFrame]
    /\ st_message = ""
    /\ report = NoReport
    /\ dashboard = NoDashboard

\* --------------------------------------------------------------- actions
\* time passes
Tick ==
    /\ clock < MaxClock
    /\ clock' = clock + 1
    /\ UNCHANGED <<db, pc, frame, st_message, report, dashboard>>

\* add_employee: INSERT INTO employees, IntegrityError on a known employee_id
add_employee(e, n) ==
    /\ \/ /\ e \notin EmployeeIdsOf(employees)
          /\ employees' = employees \cup {[employee_id |-> e, name |-> n]}
       \/ /\ e \in EmployeeIdsOf(employees)
          /\ UNCHANGED employees
    /\ UNCHANGED <<timesheet, attendance_log, last_update, clock, pc, frame, st_message, report, dashboard>>

\* add_timesheet_entry, run to completion
add_timesheet_entry(e, project, task, hours, d) ==
    /\ timesheet' = InsertTimesheet(timesheet, e, project, task, hours, d, clock)
    /\ attendance_log' =
           IF NeedsDefault(SelectStatus(attendance_log, e, DateIso(d)))
           THEN log_attendance(attendance_log, e, d, "Present", "Work Submitted")
           ELSE attendance_log
    /\ last_update' = WriteTimestamp(OpenForWrite(last_update), clock)

\* employee_view, form "task_form", button "Submit Task"
SubmitTask(e, form, d) ==
    /\ \/ /\ TaskFormValid(form.project_name, form.task_description, form.hours_worked)
          /\ Len(timesheet) < MaxTimesheet
          /\ add_timesheet_entry(e, form.project_name, form.task_description,
                                 form.hours_worked, d)
          /\ st_message' = "Task submitted!"
       \/ /\ ~TaskFormValid(form.project_name, form.task_description, form.hours_worked)
          /\ st_message' = "Please fill all fields."
          /\ UNCHANGED <<timesheet, attendance_log, last_update>>
    /\ UNCHANGED <<employees, clock, pc, frame, report, dashboard>>

\* employee_view, form "leave_form", button "Submit"
MarkLeave(e, d, status, reason) ==
    /\ \/ /\ LeaveFormValid(reason)
          /\ attendance_log' = log_attendance(attendance_log, e, d, status, reason)
          /\ st_message' = "Status logged"
       \/ /\ ~LeaveFormValid(reason)
          /\ st_message' = "A reason is required."
          /\ UNCHANGED attendance_log
    /\ UNCHANGED <<employees, timesheet, last_update, clock, pc, frame, report, dashboard>>

AdminAddsEmployee == \E e \in EmployeeIds, n \in EmployeeNames : add_employee(e, n)

\* the employee of a session is one that check_employee_credentials found
EmployeeSubmitsTask ==
    \E e \in EmployeeIdsOf(employees), form \in TaskFormInputs, d \in DateInputs :
        SubmitTask(e, form, d)

EmployeeMarksLeave ==
    \E e \in EmployeeIdsOf(employees), d \in DateInputs,
       status \in LeaveTypes, reason \in ReasonInputs :
        MarkLeave(e, d, status, reason)

\* ------------------------------------------- sessions running concurrently
\* employee_view, "Submit Task", up to now = datetime.now(IST) of
\* add_timesheet_entry
BeginSubmitTask(p, e, form, d) ==
    /\ pc[p] = "idle"
    /\ \/ /\ TaskFormValid(form.project_name, form.task_description, form.hours_worked)
          /\ Len(timesheet) + Cardinality({q \in Sessions : pc[q] = "insert"}) < MaxTimesheet
          /\ frame' = [frame EXCEPT ![p] =
                 [employee_id |-> e, project_name |-> form.project_name,
                  task_description |-> form.task_description,
                  hours_worked |-> form.hours_worked, entry_date |-> d,
                  now |-> clock, current_log |-> "None"]]
          /\ pc' = [pc EXCEPT ![p] = "insert"]
          /\ UNCHANGED st_message
       \/ /\ ~TaskFormValid(form.project_name, form.task_description, form.hours_worked)
          /\ st_message' = "Please fill all fields."
          /\ UNCHANGED <<pc, frame>>
    /\ UNCHANGED <<db, clock, report, dashboard>>

\* INSERT INTO timesheet ...; conn.commit()
InsertStep(p) ==
    /\ pc[p] = "insert"
    /\ timesheet' = InsertTimesheet(timesheet, frame[p].employee_id, frame[p].project_name,
                                    frame[p].task_description, frame[p].hours_worked,
                                    frame[p].entry_date, frame[p].now)
    /\ pc' = [pc EXCEPT ![p] = "select"]
    /\ UNCHANGED <<employees, attendance_log, last_update, clock, frame, st_message, report, dashboard>>

\* SELECT status FROM attendance_log ...; current_log = cursor.fetchone()
SelectStep(p) ==
    /\ pc[p] = "select"
    /\ frame' = [frame EXCEPT ![p].current_log =
           SelectStatus(attendance_log, frame[p].employee_id, DateIso(frame[p].entry_date))]
    /\ pc' = [pc EXCEPT ![p] = "derive"]
    /\ UNCHANGED <<db, clock, st_message, report, dashboard>>

\* if current_log is None: log_attendance(...); conn.close()
DeriveStep(p) ==
    /\ pc[p] = "derive"
    /\ attendance_log' =
           IF NeedsDefault(frame[p].current_log)
           THEN log_attendance(attendance_log, frame[p].employee_id, frame[p].entry_date,
                              "Present", "Work Submitted")
           ELSE attendance_log
    /\ pc' = [pc EXCEPT ![p] = "open"]
    /\ UNCHANGED <<employees, timesheet, last_update, clock, frame, st_message, report, dashboard>>

\* with open(LAST_UPDATE_FILE, "w") as f
OpenStep(p) ==
    /\ pc[p] = "open"
    /\ last_update' = OpenForWrite(last_update)
    /\ pc' = [pc EXCEPT ![p] = "write"]
    /\ UNCHANGED <<employees, timesheet, attendance_log, clock, frame, st_message, report, dashboard>>

\* f.write(str(now.timestamp())), the file closed; st.success("Task submitted!")
WriteStep(p) ==
    /\ pc[p] = "write"
    /\ last_update' = WriteTimestamp(last_update, frame[p].now)
    /\ pc' = [pc EXCEPT ![p] = "idle"]
    /\ frame' = [frame EXCEPT ![p] = IdleFrame]
    /\ st_message' = "Task submitted!"
    /\ UNCHANGED <<employees, timesheet, attendance_log, clock, report, dashboard>>

SessionBeginsTask ==
    \E p \in Sessions, e \in EmployeeIdsOf(employees), form \in TaskFormInputs,
       d \in DateInputs :
        BeginSubmitTask(p, e, form, d)

SessionInserts == \E p \in Sessions : InsertStep(p)
SessionSelects == \E p \in Sessions : SelectStep(p)
SessionDerives == \E p \in Sessions : DeriveStep(p)
SessionOpens == \E p \in Sessions : OpenStep(p)
SessionWrites == \E p \in Sessions : WriteStep(p)

\* a session between two forms declares a leave: log_attendance is one statement
SessionMarksLeave ==
    \E p \in Sessions, e \in EmployeeIdsOf(employees), d \in DateInputs,
       status \in LeaveTypes, reason \in ReasonInputs :
        pc[p] = "idle" /\ MarkLeave(e, d, status, reason)

\* the sessions start once the admin has registered an employee
InitConc ==
    /\ employees = {[employee_id |-> "E1", name |-> "Asha"]}
    /\ timesheet = <<>>
    /\ attendance_log = EmptyBag
    /\ last_update = [exists |-> FALSE, text |-> <<>>]
    /\ clock = 0
    /\ pc = [p \in Sessions |-> "idle"]
    /\ frame = [p \in Sessions |-> IdleFrame]
    /\ st_message = ""
    /\ report = NoReport
    /\ dashboard = NoDashboard

NextConc ==
    \/ Tick
    \/ SessionBeginsTask
    \/ SessionInserts
    \/ SessionSelects
    \/ SessionDerives
    \/ SessionOpens
    \/ SessionWrites
    \/ SessionMarksLeave

SpecConc == InitConc /\ [][NextConc]_vars

\* ------------------------------------------------ reports over a full ledger
MaxLoggedDays == 23

\* year and month picked in the selectboxes of the "Monthly Report" page
ReportMonthInputs == {<<2024, 3>>, <<2024, 4>>, <<2024, 2>>, <<2023, 3>>}

StatusPatterns == {"present", "leave", "mixed"}

\* the status an employee got on day i of March 2024
PatternStatus(pattern, i) ==
    IF pattern = "present" THEN "Present"
    ELSE IF pattern = "leave" THEN "Leave"
    ELSE IF i % 3 = 0 THEN "Half-day" ELSE IF i % 3 = 1 THEN "Present" ELSE "Leave"

\* the rows left by an employee who submitted work or declared a leave on
\* each of the first k days of March 2024
LoggedRows(e, k, pattern) ==
    {[employee_id |-> e, attendance_date |-> DateIso(MkDate(2024, 3, i)),
      status |-> PatternStatus(pattern, i),
      reason |-> IF PatternStatus(pattern, i) = "Present" THEN "Work Submitted" ELSE "Sick"]
        : i \in 1..k}

\* a leave declared for Monday 1 April 2024
AprilRow(e) ==
    [employee_id |-> e, attendance_date |-> DateIso(MkDate(2024, 4, 1)),
     status |-> "Leave", reason |-> "Trip"]

\* the database after some weeks of use, no request in progress
InitReport ==
    /\ \E ids \in {{}, {"E1"}, {"E1", "E2"}} :
          /\ employees = {[employee_id |-> e, name |-> "Asha"] : e \in ids}
          /\ \E k1 \in {0, 1, MaxLoggedDays - 2, MaxLoggedDays}, k2 \in {0, 2},
                p1 \in StatusPatterns, p2 \in StatusPatterns, april \in BOOLEAN :
                attendance_log = SetToBag(
                    (IF "E1" \in ids THEN LoggedRows("E1", k1, p1) ELSE {})
                    \cup (IF "E2" \in ids THEN LoggedRows("E2", k2, p2) ELSE {})
                    \cup (IF "E1" \in ids /\ april THEN {AprilRow("E1")} ELSE {}))
    /\ timesheet = <<>>
    /\ last_update = [exists |-> FALSE, text |-> <<>>]
    /\ clock = 0
    /\ pc = [p \in Sessions |-> "idle"]
    /\ frame = [p \in Sessions |-> IdleFrame]
    /\ st_message = ""
    /\ report = NoReport
    /\ dashboard = NoDashboard

\* a report that deletes the ledger rows it has read
MonthlyReport_DropsRows(year, month) ==
    /\ report' = generate_monthly_report(get_all_employees, attendance_log, year, month)
    /\ attendance_log' = BagFilter(attendance_log,
                              BagToSet(attendance_log)
                                  \ BagToSet(MonthRows(attendance_log, year, month)))
    /\ UNCHANGED <<employees, timesheet, last_update, clock, pc, frame, st_message, dashboard>>

\* admin_view, page "Monthly Report"
MonthlyReport(year, month) ==
    /\ report' = generate_monthly_report(get_all_employees, attendance_log, year, month)
    /\ UNCHANGED <<db, clock, pc, frame, st_message, dashboard>>

AdminViewsMonthlyReport == \E ym \in ReportMonthInputs : MonthlyReport(ym[1], ym[2])

NextReport == AdminViewsMonthlyReport

SpecReport == InitReport /\ [][NextReport]_vars

\* ------------------------------------------------------ the admin's dashboard
\* attendance_placeholder.dataframe(get_todays_attendance_status()) and
\* timesheet_placeholder.dataframe(get_timesheet_entries_today()), under the
\* header of today's date, with last_update_check set to check
Refreshed(check) ==
    [open |-> TRUE, last_update_check |-> check, date |-> Today(clock),
     attendance |-> get_todays_attendance_status(get_all_employees, attendance_log, clock),
     entries |-> get_timesheet_entries_today(timesheet, get_all_employees, clock)]

\* admin_dashboard_view in a new session: 'last_update_check' is not in
\* st.session_state
DashboardOpen ==
    /\ dashboard' = Refreshed(get_last_update_time(last_update))
    /\ UNCHANGED <<db, clock, pc, frame, st_message, report>>

\* one turn of the while True loop of admin_dashboard_view
DashboardPoll ==
    /\ dashboard.open
    /\ dashboard' =
           IF get_last_update_time(last_update) > dashboard.last_update_check
           THEN Refreshed(get_last_update_time(last_update))
           ELSE dashboard
    /\ UNCHANGED <<db, clock, pc, frame, st_message, report>>

\* ------------------------------------- today's view next to the monthly report
\* the days of March 2024 on which an employee left a row
LoggedDaySets == {{}, {1}, {2}, {1, 5, 6}, {1, 2, 6}}

\* the rows left by an employee on the days of March 2024 in days
RowsOnDays(e, days, pattern) ==
    {[employee_id |-> e, attendance_date |-> DateIso(MkDate(2024, 3, i)),
      status |-> PatternStatus(pattern, i),
      reason |-> IF PatternStatus(pattern, i) = "Present" THEN "Work Submitted" ELSE "Sick"]
        : i \in days}

\* the timesheet entries behind the Present rows of days 1..i: each such
\* row was written by a submission of that day
RECURSIVE SubmissionsBehind(_, _)
SubmissionsBehind(rows, i) ==
    IF i = 0 THEN <<>>
    ELSE LET Entry(e) ==
                 IF \E r \in rows : /\ r.employee_id = e
                                     /\ r.attendance_date = DateIso(MkDate(2024, 3, i))
                                     /\ r.status = "Present"
                 THEN <<TimesheetRow(e, "Alpha", "Fix bug", 1, MkDate(2024, 3, i), 0)>>
                 ELSE <<>>
         IN  SubmissionsBehind(rows, i - 1) \o Entry("E1") \o Entry("E2")

\* the database in the first week of March 2024, no request in progress
InitToday ==
    /\ \E ids \in {{"E1"}, {"E1", "E2"}} :
          /\ employees = {[employee_id |-> e, name |-> "Asha"] : e \in ids}
          /\ \E days1 \in LoggedDaySets, p1 \in {"present", "mixed"},
                days2 \in {{}, {5, 6}} :
                attendance_log = SetToBag(
                    RowsOnDays("E1", days1, p1)
                    \cup (IF "E2" \in ids THEN RowsOnDays("E2", days2, "mixed") ELSE {}))
    /\ timesheet = SubmissionsBehind(BagToSet(attendance_log), 6)
    /\ last_update = [exists |-> FALSE, text |-> <<>>]
    /\ clock = 0
    /\ pc = [p \in Sessions |-> "idle"]
    /\ frame = [p \in Sessions |-> IdleFrame]
    /\ st_message = ""
    /\ report = NoReport
    /\ dashboard = NoDashboard

AdminOpensDashboard == DashboardOpen

NextToday == Tick \/ AdminOpensDashboard \/ AdminViewsMonthlyReport

SpecToday == InitToday /\ [][NextToday]_vars

\* ------------------------------ the dashboard polling while sessions submit
\* time passes within Saturday 2 March 2024, from its morning tick
TickDash ==
    /\ clock < MaxClock + 1
    /\ Today(clock + 1) = Today(clock)
    /\ clock' = clock + 1
    /\ UNCHANGED <<db, pc, frame, st_message, report, dashboard>>

\* "Submit Task" with the date_input left at its value, today
SessionBeginsTaskToday ==
    \E p \in Sessions, e \in EmployeeIdsOf(employees), form \in TaskFormInputs :
        BeginSubmitTask(p, e, form, Today(clock))

\* the admin's session reaches admin_dashboard_view for the first time
AdminStartsDashboard == ~dashboard.open /\ DashboardOpen

\* the while True loop of the admin's session
AdminDashboardPolls == DashboardPoll

\* one employee registered, the morning of Saturday 2 March 2024
InitDash ==
    /\ employees = {[employee_id |-> "E1", name |-> "Asha"]}
    /\ timesheet = <<>>
    /\ attendance_log = EmptyBag
    /\ last_update = [exists |-> FALSE, text |-> <<>>]
    /\ clock = 1
    /\ pc = [p \in Sessions |-> "idle"]
    /\ frame = [p \in Sessions |-> IdleFrame]
    /\ st_message = ""
    /\ report = NoReport
    /\ dashboard = NoDashboard

NextDash ==
    \/ TickDash
    \/ SessionBeginsTaskToday
    \/ SessionInserts
    \/ SessionSelects
    \/ SessionDerives
    \/ SessionOpens
    \/ SessionWrites
    \/ AdminStartsDashboard
    \/ AdminDashboardPolls

\* a handler that was entered runs to its end, and the polling loop of the
\* open dashboard page takes a turn every three seconds; nothing obliges an
\* employee to submit
SpecDash ==
    /\ InitDash
    /\ [][NextDash]_vars
    /\ WF_vars(SessionInserts)
    /\ WF_vars(SessionSelects)
    /\ WF_vars(SessionDerives)
    /\ WF_vars(SessionOpens)
    /\ WF_vars(SessionWrites)
    /\ WF_vars(AdminStartsDashboard)
    /\ WF_vars(AdminDashboardPolls)

\* ------------------------------------------- statements that raise an error
\* the statement a session is at raises (sqlite3.OperationalError from
\* execute or commit, OSError from open or write): add_timesheet_entry has no
\* try and no rollback, the exception ends the handler, Streamlit shows it,
\* and what was committed before stays committed
RaiseStep(p) ==
    /\ pc[p] \in {"insert", "select", "derive", "open", "write"}
    /\ pc' = [pc EXCEPT ![p] = "idle"]
    /\ frame' = [frame EXCEPT ![p] = IdleFrame]
    /\ st_message' = "Traceback"
    /\ UNCHANGED <<db, clock, report, dashboard>>

SessionRaises == \E p \in Sessions : RaiseStep(p)

NextFail ==
    \/ Tick
    \/ SessionBeginsTask
    \/ SessionInserts
    \/ SessionSelects
    \/ SessionDerives
    \/ SessionOpens
    \/ SessionWrites
    \/ SessionMarksLeave
    \/ SessionRaises

SpecFail == InitConc /\ [][NextFail]_vars

Next == Tick \/ AdminAddsEmployee \/ EmployeeSubmitsTask \/ EmployeeMarksLeave

Spec == Init /\ [][Next]_vars

\* ================================================================== claims
Keys == {<<e, DateIso(d)>> : e \in EmployeeIds, d \in DateInputs}

StoredStatuses == {"Present", "Half-day", "Leave"}

\* the rows of the key k, with their multiplicities
KeyBag(log, k) == BagFilter(log, RowsOf(log, k[1], k[2]))

\* this step appended one timesheet entry for the key k: a submission was accepted
Submitted(k) ==
    /\ Len(timesheet') = Len(timesheet) + 1
    /\ SubSeq(timesheet', 1, Len(timesheet)) = timesheet
    /\ timesheet'[Len(timesheet')].employee_id = k[1]
    /\ timesheet'[Len(timesheet')].submission_date = k[2]

\* the timesheet entries of the key k
EntriesOf(ts, k) ==
    {i \in 1..Len(ts) : ts[i].employee_id = k[1] /\ ts[i].submission_date = k[2]}

\* C1: the attendance ledger holds at most one record per (employee, date),
\* whatever the sessions submitted or declared and however they interleaved.
C1_OneRecordPerKey ==
    \A r \in BagToSet(attendance_log) :
        CountOf(attendance_log, r.employee_id, r.attendance_date) <= 1

\* both sessions found no record for the same key and both wrote one
C1_Witness ==
    /\ \A p \in Sessions : pc[p] = "open" /\ frame[p].current_log = "None"
    /\ \E k \in Keys :
          /\ \A p \in Sessions : <<frame[p].employee_id, DateIso(frame[p].entry_date)>> = k
          /\ CountOf(attendance_log, k[1], k[2]) = 1

\* C2: a submission for a key that already has a record leaves that record
\* as it is, status and reason, whatever its status.
C2_SubmissionKeepsRecord ==
    [][\A k \in Keys :
          (Submitted(k) /\ RowsOf(attendance_log, k[1], k[2]) # {})
              => KeyBag(attendance_log', k) = KeyBag(attendance_log, k)]_vars

\* the form handled last was a submission, and its key holds a Half-day
\* record with the reason declared for it
C2_Witness ==
    /\ st_message = "Task submitted!"
    /\ timesheet # <<>>
    /\ \E r \in BagToSet(attendance_log) :
          /\ r.employee_id = timesheet[Len(timesheet)].employee_id
          /\ r.attendance_date = timesheet[Len(timesheet)].submission_date
          /\ r.status = "Half-day"
          /\ r.reason = "Sick"

\* C3: an accepted declaration of status s with reason r for a key makes
\* {s, r} the one record of the key and changes no other key.
C3_DeclarationOverwrites ==
    [][\A e \in EmployeeIds, d \in DateInputs, s \in LeaveTypes, r \in ReasonInputs \ {""} :
          (st_message' = "Status logged" /\ MarkLeave(e, d, s, r)) =>
              /\ KeyBag(attendance_log', <<e, DateIso(d)>>) =
                     SetToBag({[employee_id |-> e, attendance_date |-> DateIso(d),
                                status |-> s, reason |-> r]})
              /\ \A k \in Keys \ {<<e, DateIso(d)>>} :
                     KeyBag(attendance_log', k) = KeyBag(attendance_log, k)]_vars

\* a declaration was handled last; its key has a timesheet entry and holds a
\* Leave record, while the other employee keeps a Present record
C3_Witness ==
    /\ st_message = "Status logged"
    /\ \E k \in Keys :
          /\ EntriesOf(timesheet, k) # {}
          /\ \E r \in RowsOf(attendance_log, k[1], k[2]) :
                r.status = "Leave" /\ r.reason = "Trip"
          /\ \E k2 \in Keys \ {k} :
                \E r \in RowsOf(attendance_log, k2[1], k2[2]) : r.status = "Present"

\* C4: no ledger write of a submission replaces a declared record of its key
\* by Present: a submission that commits after a declaration is a no-op.
C4_SubmissionNeverReplacesDeclaration ==
    [][\A k \in Keys :
          (\E r \in RowsOf(attendance_log, k[1], k[2]) : r.status \in LeaveTypes)
              => \A r \in RowsOf(attendance_log', k[1], k[2]) : r.status # "Present"]_vars

\* C5: a submission for a key without a record creates the record
\* {Present, "Work Submitted"} for it and changes no other key, at any time
\* of day and whether or not the date is today.
C5_SubmissionCreatesPresent ==
    [][\A k \in Keys :
          (Submitted(k) /\ RowsOf(attendance_log, k[1], k[2]) = {})
              => /\ KeyBag(attendance_log', k) =
                        SetToBag({[employee_id |-> k[1], attendance_date |-> k[2],
                                   status |-> "Present", reason |-> "Work Submitted"]})
                 /\ \A k2 \in Keys \ {k} :
                        KeyBag(attendance_log', k2) = KeyBag(attendance_log, k2)]_vars

\* the only submission of a key was made just now, on a day after its date,
\* and the key holds the Present record
C5_Witness ==
    /\ st_message = "Task submitted!"
    /\ timesheet # <<>>
    /\ last_update.text = IntToStr(Timestamp(clock))
    /\ DateIso(Today(clock)) # timesheet[Len(timesheet)].submission_date
    /\ LET k == <<timesheet[Len(timesheet)].employee_id,
                  timesheet[Len(timesheet)].submission_date>>
       IN  /\ Cardinality(EntriesOf(timesheet, k)) = 1
           /\ \E r \in RowsOf(attendance_log, k[1], k[2]) :
                 r.status = "Present" /\ r.reason = "Work Submitted"

\* C6: a key with timesheet entries has exactly one record, and a further
\* submission for it appends one timesheet entry and leaves the whole ledger
\* as it is.
C6_DuplicateSubmissionIdempotent ==
    /\ [](\A k \in Keys :
             EntriesOf(timesheet, k) # {} => CountOf(attendance_log, k[1], k[2]) = 1)
    /\ [][\A k \in Keys :
             (Submitted(k) /\ EntriesOf(timesheet, k) # {})
                 => attendance_log' = attendance_log]_vars

\* two timesheet entries of one key, and its one record is the Present
\* record of the first
C6_Witness ==
    \E k \in Keys :
        /\ Cardinality(EntriesOf(timesheet, k)) >= 2
        /\ KeyBag(attendance_log, k) =
               SetToBag({[employee_id |-> k[1], attendance_date |-> k[2],
                          status |-> "Present", reason |-> "Work Submitted"]})

\* C7: a declaration with an empty reason is answered with the validation
\* error and changes neither the ledger, the timesheet nor the marker file.
C7_EmptyReasonRejected ==
    [][\A e \in EmployeeIds, d \in DateInputs, s \in LeaveTypes :
          MarkLeave(e, d, s, "") =>
              /\ st_message' = "A reason is required."
              /\ UNCHANGED <<attendance_log, timesheet, last_update>>]_vars

\* a declaration was rejected after the ledger and the marker got a content
C7_Witness ==
    /\ st_message = "A reason is required."
    /\ attendance_log # EmptyBag
    /\ last_update.exists

\* C8: a task form with non-positive hours, an empty project name or an empty
\* task description is answered with the validation error: no timesheet
\* entry, no ledger change, no write of the marker file.
C8_InvalidTaskRejected ==
    [][\A e \in EmployeeIds, d \in DateInputs, form \in TaskFormInputs :
          (/\ \/ form.hours_worked <= 0
              \/ form.project_name = ""
              \/ form.task_description = ""
           /\ SubmitTask(e, form, d))
              => /\ st_message' = "Please fill all fields."
                 /\ UNCHANGED <<timesheet, attendance_log, last_update>>]_vars

\* a task form was rejected after an earlier one was accepted
C8_Witness ==
    /\ st_message = "Please fill all fields."
    /\ Len(timesheet) = 1
    /\ attendance_log # EmptyBag
    /\ last_update.exists

\* C9: every stored record has a status among Present, Half-day and Leave;
\* Absent and Weekend are never stored.
C9_StoredStatuses ==
    \A r \in BagToSet(attendance_log) : r.status \in StoredStatuses

\* records written by a submission and by declarations of both types
C9_Witness ==
    /\ \E r \in BagToSet(attendance_log) : r.status = "Present"
    /\ \E r \in BagToSet(attendance_log) : r.status = "Half-day"
    /\ timesheet # <<>>
    /\ \E k \in Keys : EntriesOf(timesheet, k) # {} /\
          \E r \in RowsOf(attendance_log, k[1], k[2]) : r.status = "Half-day"

\* the ledger rows of employee e dated in the month, with the status s
LedgerCount(e, year, month, s) ==
    Cardinality({r \in BagToSet(attendance_log) :
                    /\ r.employee_id = e
                    /\ ParseIso(r.attendance_date).year = year
                    /\ ParseIso(r.attendance_date).month = month
                    /\ r.status = s})

LedgerLogged(e, year, month) ==
    LedgerCount(e, year, month, "Present") + LedgerCount(e, year, month, "Half-day")
        + LedgerCount(e, year, month, "Leave")

\* the Monday-to-Friday days of the month
MonFriDays(year, month) ==
    Cardinality({i \in 1..DaysInMonth(year, month) :
                    Weekday(MkDate(year, month, i)) \notin {5, 6}})

\* C10: for every employee of the directory the summary has one row, whose
\* Absent is max(0, working_days - (Present + Half-day + Leave)), the counts
\* taken over all ledger rows of the month, weekends included.
C10_AbsentFloor ==
    report.generated =>
        \A emp \in employees :
            /\ Cardinality({row \in report.summary : row.employee_id = emp.employee_id}) = 1
            /\ \A row \in report.summary :
                  row.employee_id = emp.employee_id =>
                      LET gap == MonFriDays(report.year, report.month)
                                 - LedgerLogged(emp.employee_id, report.year, report.month)
                      IN  /\ row.Absent = (IF gap > 0 THEN gap ELSE 0)
                          /\ row.Absent >= 0

\* a summary row of an employee with more logged days than working days
C10_Witness ==
    /\ report.generated
    /\ \E row \in report.summary :
          /\ LedgerLogged(row.employee_id, report.year, report.month)
                 > MonFriDays(report.year, report.month)
          /\ row.Absent = 0

\* the summary row of employee e in the last report generated
SummaryRow(e) == CHOOSE row \in report.summary : row.employee_id = e

\* C11: for every employee of the directory the summary holds a Present, a
\* Half-day and a Leave count, each the number of the employee's ledger rows
\* of the month with that status, 0 when there is none, also when no
\* employee has a row with that status.
C11_SummaryHasEveryCount ==
    report.generated =>
        \A emp \in employees :
            /\ \E row \in report.summary : row.employee_id = emp.employee_id
            /\ \A s \in StoredStatuses :
                  /\ s \in DOMAIN SummaryRow(emp.employee_id).counts
                  /\ SummaryRow(emp.employee_id).counts[s] =
                         LedgerCount(emp.employee_id, report.year, report.month, s)

\* the counts the summary does hold equal the ledger's
C11_CountsOfPresentColumns ==
    report.generated =>
        \A emp \in employees :
            /\ \E row \in report.summary : row.employee_id = emp.employee_id
            /\ \A s \in DOMAIN SummaryRow(emp.employee_id).counts :
                  SummaryRow(emp.employee_id).counts[s] =
                      LedgerCount(emp.employee_id, report.year, report.month, s)

\* a report over a month in which some employee has Present rows and nobody
\* has a Half-day row
C11_Witness ==
    /\ report.generated
    /\ \E row \in report.summary :
          /\ "Present" \in DOMAIN row.counts
          /\ row.counts["Present"] > 0
          /\ "Half-day" \notin DOMAIN row.counts

\* the matrix row of employee e in the last report generated
DetailedRow(e) == CHOOSE row \in report.detailed : row.employee_id = e

\* employee e has no ledger row dated in the month of the last report
NoRowInMonth(e) == LedgerLogged(e, report.year, report.month) = 0

\* a full month of default cells: Weekend on Saturday and Sunday, Absent
\* on the other days
DefaultMonth(year, month) ==
    [i \in 1..DaysInMonth(year, month) |->
        IF Weekday(MkDate(year, month, i)) \in {5, 6} THEN "Weekend" ELSE "Absent"]

\* C12: an employee of the directory with no ledger row in the month is in
\* the summary with Present = 0, Half-day = 0, Leave = 0 and Absent =
\* working_days, and in the matrix with a full month of default cells, also
\* when the month has no ledger row at all.
C12_ZeroRowEmployee ==
    report.generated =>
        \A emp \in employees :
            NoRowInMonth(emp.employee_id) =>
                /\ \E row \in report.summary : row.employee_id = emp.employee_id
                /\ \A s \in StoredStatuses :
                      /\ s \in DOMAIN SummaryRow(emp.employee_id).counts
                      /\ SummaryRow(emp.employee_id).counts[s] = 0
                /\ SummaryRow(emp.employee_id).Absent =
                       MonFriDays(report.year, report.month)
                /\ \E row \in report.detailed : row.employee_id = emp.employee_id
                /\ DetailedRow(emp.employee_id).cells =
                       DefaultMonth(report.year, report.month)

\* what the report does give for such an employee: a summary row with
\* Absent = working_days and 0 in the count columns the summary has, and a
\* matrix row of default cells
C12_ZeroRowEmployeeListed ==
    report.generated =>
        \A emp \in employees :
            NoRowInMonth(emp.employee_id) =>
                /\ Cardinality({row \in report.summary :
                                   row.employee_id = emp.employee_id}) = 1
                /\ \A s \in DOMAIN SummaryRow(emp.employee_id).counts :
                      SummaryRow(emp.employee_id).counts[s] = 0
                /\ SummaryRow(emp.employee_id).Absent =
                       MonFriDays(report.year, report.month)
                /\ Cardinality({row \in report.detailed :
                                   row.employee_id = emp.employee_id}) = 1
                /\ DetailedRow(emp.employee_id).cells =
                       DefaultMonth(report.year, report.month)

\* a report over a month with no ledger row at all, the directory not empty
C12_Witness ==
    /\ report.generated
    /\ employees # {}
    /\ \A emp \in employees : NoRowInMonth(emp.employee_id)
    /\ \A row \in report.summary : DOMAIN row.counts = {} /\ row.Absent > 0

\* the ledger rows of employee e dated day i of the month
RowsOfDay(e, year, month, i) == RowsOf(attendance_log, e, DateIso(MkDate(year, month, i)))

\* C13: for every employee of the directory and every day of the month the
\* matrix has exactly one cell: the stored status when the ledger has a row
\* for (employee, date), else Weekend on Saturday and Sunday and Absent on
\* the other days; no cell differs from its default without a ledger row.
C13_MatrixComplete ==
    report.generated =>
        \A emp \in employees :
            /\ Cardinality({row \in report.detailed :
                               row.employee_id = emp.employee_id}) = 1
            /\ DOMAIN DetailedRow(emp.employee_id).cells =
                   1..DaysInMonth(report.year, report.month)
            /\ \A i \in 1..DaysInMonth(report.year, report.month) :
                  LET rows == RowsOfDay(emp.employee_id, report.year, report.month, i)
                      cell == DetailedRow(emp.employee_id).cells[i]
                  IN  /\ rows # {} => \A r \in rows : cell = r.status
                      /\ rows = {} => cell = DefaultMonth(report.year, report.month)[i]
                      /\ cell # DefaultMonth(report.year, report.month)[i] => rows # {}

\* a matrix row with a stored status on a Saturday or Sunday, a Weekend
\* cell and an Absent cell
C13_Witness ==
    /\ report.generated
    /\ \E row \in report.detailed :
          /\ \E i \in DOMAIN row.cells :
                /\ Weekday(MkDate(report.year, report.month, i)) \in {5, 6}
                /\ row.cells[i] \in StoredStatuses
                /\ RowsOfDay(row.employee_id, report.year, report.month, i) # {}
          /\ \E i \in DOMAIN row.cells : row.cells[i] = "Weekend"
          /\ \E i \in DOMAIN row.cells : row.cells[i] = "Absent"

\* C14: the last-data-change marker never decreases: a submission that
\* finishes later never stores a smaller timestamp than the one the marker
\* file holds, over any sequence or interleaving of submissions (the moment
\* at which the file is open and still empty is not counted).
C14_MarkerNeverDecreases ==
    [][(last_update.text # <<>> /\ last_update'.text # <<>>) =>
          get_last_update_time(last_update') >= get_last_update_time(last_update)]_vars

\* a submission started at the first tick finished after one started later
C14_Witness ==
    /\ last_update.text = IntToStr(Timestamp(0))
    /\ Len(timesheet) = 2
    /\ \E i \in 1..Len(timesheet) : timesheet[i].submission_time = TimeOfDay(1)
    /\ TimeOfDay(1) # TimeOfDay(0)
    /\ \A p \in Sessions : pc[p] = "idle"
    /\ st_message = "Task submitted!"

IsPrefix(a, b) == Len(a) <= Len(b) /\ SubSeq(b, 1, Len(a)) = a

\* C16: the timesheet is append-only: an accepted submission appends exactly
\* one entry, also when its employee and date already have one, and no step
\* changes or removes an entry, so the earlier log is a prefix of the later.
C16_TimesheetAppendOnly ==
    [][/\ IsPrefix(timesheet, timesheet')
       /\ Len(timesheet') <= Len(timesheet) + 1
       /\ \A e \in EmployeeIds, form \in TaskFormInputs, d \in DateInputs :
             (/\ st_message' = "Task submitted!"
              /\ TaskFormValid(form.project_name, form.task_description, form.hours_worked)
              /\ SubmitTask(e, form, d))
                 => /\ Len(timesheet') = Len(timesheet) + 1
                    /\ timesheet'[Len(timesheet')].employee_id = e
                    /\ timesheet'[Len(timesheet')].submission_date = DateIso(d)
                    /\ timesheet'[Len(timesheet')].project_name = form.project_name
                    /\ timesheet'[Len(timesheet')].hours_worked = form.hours_worked]_vars

\* two entries of one employee and date, entered at different times, are
\* both in the log after a declaration for that key
C16_Witness ==
    /\ Len(timesheet) = 2
    /\ timesheet[1].employee_id = timesheet[2].employee_id
    /\ timesheet[1].submission_date = timesheet[2].submission_date
    /\ timesheet[1].submission_time # timesheet[2].submission_time
    /\ st_message = "Status logged"
    /\ \E r \in RowsOf(attendance_log, timesheet[1].employee_id, timesheet[1].submission_date) :
          r.status = "Leave"

\* the last report generated is for the month of the day the dashboard shows
ReportOfDashboardMonth ==
    /\ report.generated
    /\ dashboard.open
    /\ report.year = dashboard.date.year
    /\ report.month = dashboard.date.month

\* every Absent cell of the matrix is a Monday-to-Friday day without a row
C17_MatrixAbsent ==
    report.generated =>
        \A row \in report.detailed : \A i \in DOMAIN row.cells :
            row.cells[i] = "Absent" =>
                /\ RowsOfDay(row.employee_id, report.year, report.month, i) = {}
                /\ Weekday(MkDate(report.year, report.month, i)) \notin {5, 6}

\* every Absent of today's view is for an employee without a row today
C17_TodayAbsentHasNoRow ==
    dashboard.open =>
        \A row \in dashboard.attendance :
            row.status = "Absent" =>
                RowsOf(attendance_log, row.employee_id, DateIso(dashboard.date)) = {}

\* on a Monday-to-Friday day the two views give the same status
C17_ViewsAgreeOnWorkingDays ==
    (ReportOfDashboardMonth /\ Weekday(dashboard.date) \notin {5, 6}) =>
        \A row \in dashboard.attendance :
            row.status = DetailedRow(row.employee_id).cells[dashboard.date.day]

\* C17: a read reports Absent for (employee, date) only when the ledger has
\* no row for the pair and the date is a Monday-to-Friday day, in the cells
\* of the monthly matrix and in the rows of today's view, so that the two
\* views give the same status for today's date.
C17_AbsentOnlyOnWorkingDays ==
    /\ C17_MatrixAbsent
    /\ C17_TodayAbsentHasNoRow
    /\ dashboard.open =>
          \A row \in dashboard.attendance :
              row.status = "Absent" => Weekday(dashboard.date) \notin {5, 6}
    /\ ReportOfDashboardMonth =>
          \A row \in dashboard.attendance :
              row.status = DetailedRow(row.employee_id).cells[dashboard.date.day]

\* the dashboard opened on a Saturday shows Absent for an employee whose
\* cell of that day in the matrix is Weekend
C17_Witness ==
    /\ ReportOfDashboardMonth
    /\ Weekday(dashboard.date) = 5
    /\ \E row \in dashboard.attendance :
          /\ row.status = "Absent"
          /\ DetailedRow(row.employee_id).cells[dashboard.date.day] = "Weekend"

\* every handler has returned, and no two submissions read the same time
SubmissionsDone ==
    /\ \A p \in Sessions : pc[p] = "idle"
    /\ \A i, j \in 1..Len(timesheet) :
          i # j => timesheet[i].submission_time # timesheet[j].submission_time

\* C18: with the polling loop scheduled fairly, every accepted submission
\* is eventually followed by a refresh of the dashboard that shows it, for
\* every interleaving of the submissions with the loop (stated for the
\* submissions of today, which are the ones the dashboard lists, and for
\* submissions made at different times).
C18_SubmissionEventuallyShown ==
    \A n \in 1..MaxTimesheet :
        (Len(timesheet) >= n /\ SubmissionsDone)
            ~> (dashboard.open /\ Len(dashboard.entries) >= n)

\* every handler has returned, the marker holds the timestamp of the
\* submission started first, the dashboard has seen the later timestamp and
\* shows one of the two entries of today
C18_Witness ==
    /\ \A p \in Sessions : pc[p] = "idle"
    /\ Len(timesheet) = 2
    /\ dashboard.open
    /\ Len(dashboard.entries) = 1
    /\ get_last_update_time(last_update) < dashboard.last_update_check
    /\ timesheet[2].submission_time < timesheet[1].submission_time

\* C19: whenever no submission is in progress, each one having returned or
\* ended by an error of the storage at some statement, every key with a
\* timesheet entry has a record in the ledger.
C19_EntryHasRecord ==
    (\A p \in Sessions : pc[p] = "idle") =>
        \A k \in Keys :
            EntriesOf(timesheet, k) # {} => CountOf(attendance_log, k[1], k[2]) >= 1

\* a submission ended by an error after its INSERT was committed: its key
\* has a timesheet entry and no record
C19_Witness ==
    /\ \A p \in Sessions : pc[p] = "idle"
    /\ st_message = "Traceback"
    /\ \E k \in Keys :
          /\ EntriesOf(timesheet, k) # {}
          /\ RowsOf(attendance_log, k[1], k[2]) = {}

\* every ledger row of employee e in the month of the last report is dated
\* on a Monday-to-Friday day
AllRowsOnWorkingDays(e) ==
    \A r \in BagToSet(attendance_log) :
        (/\ r.employee_id = e
         /\ ParseIso(r.attendance_date).year = report.year
         /\ ParseIso(r.attendance_date).month = report.month)
            => Weekday(ParseIso(r.attendance_date)) \notin {5, 6}

\* the number of cells equal to s in the matrix row of employee e
CellCount(e, s) ==
    Cardinality({i \in DOMAIN DetailedRow(e).cells : DetailedRow(e).cells[i] = s})

\* C20: the two outputs of one report agree: for every employee whose rows
\* of the month all fall on Monday-to-Friday days, the summary count of
\* each of Present, Half-day, Leave and Absent is the number of cells with
\* that status in the employee's row of the matrix.
C20_SummaryMatchesMatrix ==
    report.generated =>
        \A emp \in employees :
            AllRowsOnWorkingDays(emp.employee_id) =>
                /\ \A s \in StoredStatuses :
                      /\ s \in DOMAIN SummaryRow(emp.employee_id).counts
                      /\ SummaryRow(emp.employee_id).counts[s] =
                             CellCount(emp.employee_id, s)
                /\ SummaryRow(emp.employee_id).Absent = CellCount(emp.employee_id, "Absent")

\* the same with a count column the summary lacks read as the count 0
C20_AgreeWithMissingAsZero ==
    report.generated =>
        \A emp \in employees :
            AllRowsOnWorkingDays(emp.employee_id) =>
                /\ \A s \in StoredStatuses :
                      ColumnOrZero(SummaryRow(emp.employee_id).counts, s) =
                          CellCount(emp.employee_id, s)
                /\ SummaryRow(emp.employee_id).Absent = CellCount(emp.employee_id, "Absent")

\* a report over a month in which an employee has rows, all on
\* Monday-to-Friday days and all Present: the matrix row has no Leave cell
\* and the summary has no Leave count
C20_Witness ==
    /\ report.generated
    /\ \E emp \in employees :
          /\ AllRowsOnWorkingDays(emp.employee_id)
          /\ CellCount(emp.employee_id, "Present") >= 1
          /\ SummaryRow(emp.employee_id).counts["Present"] =
                 CellCount(emp.employee_id, "Present")
          /\ CellCount(emp.employee_id, "Leave") = 0
          /\ "Leave" \notin DOMAIN SummaryRow(emp.employee_id).counts
          /\ SummaryRow(emp.employee_id).Absent = CellCount(emp.employee_id, "Absent")

====
